---- MODULE Spec2Model ----
(***************************************************************************)
(* Model of the semantic-search sample: the backfill dispatcher            *)
(* (functions/createInitialEmbeddings), the batch consumer                 *)
(* (functions/embed), the event queue with its dead-letter queue and the   *)
(* EventBridge rule (lib/event-processing construct).                      *)
(***************************************************************************)
EXTENDS Integers, Sequences, FiniteSets, TLC

\* ------------------------------------------------------------------------
\* Bounds of the model
\* ------------------------------------------------------------------------
MaxMixed == 1          \* documents of arbitrary shape at the head of the store
MaxCand == 101         \* candidate documents following them
MaxDocs == 25          \* length of the list handed to sendToQueueInBatches directly
MaxBatch == 11         \* largest batchSize handed to sendToQueueInBatches directly
MaxRecords == 2        \* records of a delivered batch
MaxMsgs == 2           \* messages sent to the event queue
MaxEvents == 1         \* change events the Atlas trigger publishes
MaxSearchDocs == 4     \* documents of the collection a search runs against
MaxCalls == 3          \* calls of getMongoCollection in one function instance

\* ------------------------------------------------------------------------
\* Program constants
\* ------------------------------------------------------------------------
DefaultBatchSize == 10
DefaultCount == 50

Absent == "absent"     \* a field that does not exist in a document
NoCount == "undefined" \* queryStringParameters without count

\* ------------------------------------------------------------------------
\* Documents, the embedding model, JSON
\* ------------------------------------------------------------------------
Texts == {"plotA", "plotB"}

\* Titan embeddings: a fixed model maps a text to one vector
Embed(text) == IF text = "plotA" THEN "vecA" ELSE "vecB"

\* what createEmbedding may hand to its caller besides a vector
Undefined == "undefined"

EmptyVector == "[]"

Threw == "threw"

\* an undefined field value as replaceOne stores it
Null == "null"

\* a response of InvokeModel: its HTTP status and what its body holds
Response(status, body) == [status |-> status, body |-> body]

Responses ==
  {Response(200, "embedding"), Response(200, "noembedding"),
   Response(200, "emptyembedding"), Response(200, "nobody"),
   Response(500, "embedding")}

\* createEmbedding once bedrockClient.send has resolved with response: it
\* throws on a status other than 200 or a missing body, and otherwise
\* returns the embedding property of the parsed body, whatever it is
createEmbedding(inputText, response) ==
  IF response.status # 200 \/ response.body = "nobody" THEN Threw
  ELSE CASE response.body = "embedding" -> Embed(inputText)
         [] response.body = "emptyembedding" -> EmptyVector
         [] OTHER -> Undefined

ObjectId(hex) == <<"ObjectId", hex>>

\* ObjectId.prototype.toJSON: the hex string
ToHex(oid) == oid[2]

\* the stored fields of a document (the store keeps _id as the key)
Doc(plot, emb, title) ==
  [plot |-> plot, plot_embedding |-> emb, title |-> title, released |-> Absent]

\* a BSON date as the driver returns it, and the text JSON.stringify makes of it
DateValue == "ISODate(1999-03-31)"

DateIso == "1999-03-31T00:00:00.000Z"

DocCandidate == Doc("plotA", Absent, "T")
DocEmbedded == Doc("plotA", Embed("plotA"), "T")
DocStale == Doc("plotB", Embed("plotA"), "T")
DocEmbOnly == Doc(Absent, Embed("plotB"), "T")
DocBare == Doc(Absent, Absent, "T")
DocUntitled == Doc("plotB", Absent, Absent)
DocDated == [DocCandidate EXCEPT !.released = DateValue]

DocKinds == {DocCandidate, DocEmbedded, DocStale, DocEmbOnly, DocBare}

\* a document as find() returns it: the fields and _id
WithId(k, d) == [_id |-> ObjectId(k), plot |-> d.plot,
                 plot_embedding |-> d.plot_embedding, title |-> d.title,
                 released |-> d.released]

\* Date.prototype.toJSON: the ISO text; other field values are JSON already
ToJsonValue(v) == IF v = DateValue THEN DateIso ELSE v

\* JSON.stringify of a document: the ObjectId becomes its hex string, a
\* date its ISO text
DocToJson(d) == [d EXCEPT !._id = ToHex(d._id), !.released = ToJsonValue(d.released)]

\* JSON.stringify of the event built by sendToQueueInBatches: a JSON text
\* whose value holds hex strings where the event held ObjectIds
Stringify(ev) ==
  [text |-> "json",
   value |-> [version |-> ev.version, id |-> ev.id,
              detailType |-> ev.detailType,
              detail |-> [operationType |-> ev.detail.operationType,
                          fullDocument |-> DocToJson(ev.detail.fullDocument),
                          documentKey |-> [_id |-> ToHex(ev.detail.documentKey._id)]]]]

VARIABLES
  store,          \* the movies collection: store[k] is the document with key k
  eventQueue,     \* the messages ever sent to the event queue, with their SQS state
  dlqEventQueue,  \* the bodies held by the dead-letter queue
  bf,             \* the invocation of the createInitialEmbeddings handler
  inv,            \* the invocation of the embed handler
  sr,             \* the invocation of the search handler
  mongo,          \* the MongoDB client of one function instance and the calls for it
  published,      \* history: the events the Atlas trigger put on the partner bus
  written         \* history: the <<key, snapshot>> events whose write modified a document

vars == <<store, eventQueue, dlqEventQueue, bf, inv, sr, mongo, published, written>>

\* ------------------------------------------------------------------------
\* Backfill dispatcher
\* ------------------------------------------------------------------------

\* parseInt on the query strings the model sends
Num(n) == [nan |-> FALSE, val |-> n]

NaN == [nan |-> TRUE, val |-> 0]

ParseInt(s) ==
  CASE s = "0" -> Num(0)
    [] s = "-3" -> Num(0 - 3)
    [] s = "1" -> Num(1)
    [] s = "7" -> Num(7)
    [] s = "10" -> Num(10)
    [] s = "10abc" -> Num(10)
    [] s = "25" -> Num(25)
    [] s = "100" -> Num(100)
    [] OTHER -> NaN

CountParams == {NoCount, "", "0", "-3", "1", "7", "10", "10abc", "25", "100", "abc"}

\* count ? parseInt(count) : 50
LimitOf(count) == IF count = NoCount \/ count = "" THEN Num(DefaultCount) ELSE ParseInt(count)

\* faulty variant, kept for comparison: the filter forgets plot_embedding
MatchesFilterPlotOnly(d) == d.plot # Absent

\* { plot: { $exists: true }, plot_embedding: { $exists: false } }
MatchesFilter(d) == d.plot # Absent /\ d.plot_embedding = Absent

RECURSIVE FilterKeys(_, _)
\* the keys of the matching documents, in the store's iteration order
FilterKeys(st, k) ==
  IF k > Len(st) THEN <<>>
  ELSE (IF MatchesFilter(st[k]) THEN <<k>> ELSE <<>>) \o FilterKeys(st, k + 1)

\* faulty variant, kept for comparison: the cursor is not limited
LimitIgnored(s, n) == s

\* cursor.limit(n): 0 is no limit, a negative n yields one batch of |n|
Limit(s, n) ==
  LET m == IF n < 0 THEN 0 - n ELSE n
  IN IF n = 0 \/ m >= Len(s) THEN s ELSE SubSeq(s, 1, m)

\* readDocuments(count)
readDocuments(st, count) ==
  LET ks == Limit(FilterKeys(st, 1), count)
  IN [i \in 1..Len(ks) |-> WithId(ks[i], st[ks[i]])]

\* faulty variant, kept for comparison: every entry gets the same Id
EntrySameId(document, u) ==
  [Id |-> 0,
   MessageBody |-> Stringify([version |-> "0", id |-> u + 1,
                              detailType |-> "MongoDB Database Trigger for sample_mflix.movies",
                              detail |-> [operationType |-> "update",
                                          fullDocument |-> document,
                                          documentKey |-> [_id |-> document._id]]])]

\* the entry pushed for one document; u and u+1 stand for the two randomUUID() results
Entry(document, u) ==
  [Id |-> u,
   MessageBody |-> Stringify([version |-> "0", id |-> u + 1,
                              detailType |-> "MongoDB Database Trigger for sample_mflix.movies",
                              detail |-> [operationType |-> "update",
                                          fullDocument |-> document,
                                          documentKey |-> [_id |-> document._id]]])]

\* faulty variant, kept for comparison: the batch is flushed one entry late
BatchIsFullOffByOne(batch, batchSize) == Len(batch) > batchSize

\* batch.length === batchSize
BatchIsFull(batch, batchSize) == Len(batch) = batchSize

RECURSIVE FillBatch(_, _, _, _, _)
\* the for loop of sendToQueueInBatches from document idx+1 up to the next
\* await (the batch is full) or the end of the list
FillBatch(documents, idx, batch, batchSize, u) ==
  IF idx >= Len(documents) THEN [idx |-> idx, batch |-> batch, uuid |-> u, full |-> FALSE]
  ELSE LET b == Append(batch, Entry(documents[idx + 1], u))
       IN IF BatchIsFull(b, batchSize)
          THEN [idx |-> idx + 1, batch |-> b, uuid |-> u + 2, full |-> TRUE]
          ELSE FillBatch(documents, idx + 1, b, batchSize, u + 2)

\* the Ids of the entries of a batch handed to sendMessagesToQueue
IdsOf(batch) == [i \in 1..Len(batch) |-> batch[i].Id]

\* a message of the event queue as SQS keeps it
Message(body) == [body |-> body, receiveCount |-> 0, st |-> "visible"]

\* faulty variant, kept for comparison: the entries of a batch are queued last first
EnqueueReversed(q, batch) ==
  q \o [i \in 1..Len(batch) |-> [body |-> batch[Len(batch) + 1 - i].MessageBody,
                                 receiveCount |-> 0, st |-> "visible"]]

\* SendMessageBatch: every entry of the batch becomes a message of the queue
Enqueue(q, batch) == q \o [i \in 1..Len(batch) |-> Message(batch[i].MessageBody)]

\* no response yet
NoResp == [statusCode |-> 0, body |-> [read |-> 0, sent |-> 0]]

NoRet == 0 - 1

BfIdle ==
  [pc |-> "idle", mode |-> "handler", count |-> NoCount,
   documents |-> <<>>, idx |-> 0, batch |-> <<>>,
   sentCount |-> 0, sends |-> 0, batchSize |-> DefaultBatchSize, uuid |-> 1,
   ret |-> NoRet, resp |-> NoResp, error |-> "", lastIds |-> <<>>]

\* a key the shared logger does not carry
NoKey == 0

\* the keys recordHandler appends to the logger shared by the whole instance
LoggerIdle == [messageId |-> NoKey, documentId |-> NoKey]

InvIdle == [pc |-> "idle", records |-> <<>>, rec |-> <<>>, remaining |-> 0,
            report |-> {}, logger |-> LoggerIdle]

\* let mongoClient / let collection before their first assignment
NoClient == 0

Calls == 1..MaxCalls

\* what getSecret(..., {transform: JSON}) resolves with
Secrets == {"url", Undefined}

\* a call of getMongoCollection that has not been made yet
NoCall == [pc |-> "idle", ret |-> NoClient, error |-> ""]

\* the module state of a fresh instance: mongoClient and collection are
\* unassigned; the n-th MongoClient constructed is named n, as is the
\* collection handle obtained from it; connection[n] is the state of its
\* connection; exit is what became of the process
MongoIdle ==
  [mongoClient |-> NoClient, collection |-> NoClient, created |-> 0,
   connection |-> <<>>, call |-> [c \in Calls |-> NoCall], exit |-> "running",
   env |-> TRUE]

\* handler of createInitialEmbeddings up to the end of readDocuments
HandlerInvoke(count) ==
  /\ bf.pc = "idle"
  /\ LET limit == LimitOf(count)
     IN bf' = IF limit.nan
              THEN [bf EXCEPT !.pc = "threw", !.count = count, !.error = "limit"]
              ELSE [bf EXCEPT !.pc = "loop", !.count = count,
                              !.documents = readDocuments(store, limit.val)]
  /\ UNCHANGED <<mongo, sr, store, eventQueue, dlqEventQueue, inv, published, written>>

\* the querystring validator of GET /create-initial-embeddings: count is a
\* required parameter (present and not blank); its value is not inspected
RequestValidator(count) == count # NoCount /\ count # ""

\* the answer of the gateway to a request its validator refuses
BadRequest == [statusCode |-> 400, body |-> [read |-> 0, sent |-> 0]]

\* a request to GET /create-initial-embeddings: the gateway validates the
\* query string and then invokes the handler
GatewayRequest(count) ==
  IF RequestValidator(count)
  THEN HandlerInvoke(count)
  ELSE /\ bf.pc = "idle"
       /\ bf' = [bf EXCEPT !.pc = "rejected", !.count = count, !.resp = BadRequest]
       /\ UNCHANGED <<mongo, sr, store, eventQueue, dlqEventQueue, inv, published, written>>

\* readDocuments rejects: the find fails and the handler rethrows
HandlerReadFails ==
  /\ bf.pc = "idle"
  /\ bf' = [bf EXCEPT !.pc = "threw", !.error = "find"]
  /\ UNCHANGED <<mongo, sr, store, eventQueue, dlqEventQueue, inv, published, written>>

\* faulty variant, kept for comparison: the documents sent are flagged in the store
DispatchSendMarks ==
  /\ bf.pc = "loop"
  /\ LET r == FillBatch(bf.documents, bf.idx, bf.batch, bf.batchSize, bf.uuid)
     IN /\ r.full
        /\ eventQueue' = Enqueue(eventQueue, r.batch)
        /\ store' = [k \in DOMAIN store |->
                       IF k <= r.idx THEN [store[k] EXCEPT !.title = "queued"] ELSE store[k]]
        /\ bf' = [bf EXCEPT !.idx = r.idx, !.uuid = r.uuid, !.batch = <<>>,
                            !.sentCount = bf.sentCount + Len(r.batch),
                            !.sends = bf.sends + 1]
  /\ UNCHANGED <<mongo, sr, dlqEventQueue, inv, published, written>>

\* the loop of sendToQueueInBatches up to and including one successful
\* await sendMessagesToQueue(batch)
DispatchSend ==
  /\ bf.pc = "loop"
  /\ LET r == FillBatch(bf.documents, bf.idx, bf.batch, bf.batchSize, bf.uuid)
     IN /\ r.full
        /\ eventQueue' = Enqueue(eventQueue, r.batch)
        /\ bf' = [bf EXCEPT !.idx = r.idx, !.uuid = r.uuid, !.batch = <<>>,
                            !.sentCount = bf.sentCount + Len(r.batch),
                            !.sends = bf.sends + 1, !.lastIds = IdsOf(r.batch)]
  /\ UNCHANGED <<mongo, sr, store, dlqEventQueue, inv, published, written>>

\* faulty variant, kept for comparison: the failed send is caught and the loop goes on
DispatchSendFailsSwallowed ==
  /\ bf.pc = "loop"
  /\ LET r == FillBatch(bf.documents, bf.idx, bf.batch, bf.batchSize, bf.uuid)
     IN /\ r.full
        /\ bf' = [bf EXCEPT !.idx = r.idx, !.uuid = r.uuid,
                            !.batch = <<>>, !.error = "send"]
  /\ UNCHANGED <<mongo, sr, store, eventQueue, dlqEventQueue, inv, published, written>>

\* sendMessagesToQueue rejects: the error leaves sendToQueueInBatches and the handler
DispatchSendFails ==
  /\ bf.pc = "loop"
  /\ LET r == FillBatch(bf.documents, bf.idx, bf.batch, bf.batchSize, bf.uuid)
     IN /\ r.full
        /\ bf' = [bf EXCEPT !.pc = "threw", !.idx = r.idx, !.uuid = r.uuid,
                            !.batch = r.batch, !.error = "send",
                            !.lastIds = IdsOf(r.batch)]
  /\ UNCHANGED <<mongo, sr, store, eventQueue, dlqEventQueue, inv, published, written>>

\* faulty variant, kept for comparison: the trailing partial batch is flushed before returning
DispatchReturnFlushes ==
  /\ bf.pc = "loop"
  /\ LET r == FillBatch(bf.documents, bf.idx, bf.batch, bf.batchSize, bf.uuid)
         sent == bf.sentCount + Len(r.batch)
     IN /\ ~r.full
        /\ eventQueue' = Enqueue(eventQueue, r.batch)
        /\ bf' = [bf EXCEPT !.pc = "returned", !.idx = r.idx, !.uuid = r.uuid,
                            !.batch = <<>>, !.sentCount = sent, !.ret = sent,
                            !.resp = [statusCode |-> 200,
                                      body |-> [read |-> Len(bf.documents),
                                                sent |-> sent]]]
  /\ UNCHANGED <<mongo, sr, store, dlqEventQueue, inv, published, written>>

\* the loop ends: sendToQueueInBatches returns sentCount and, under the
\* handler, the handler returns its 200 response
DispatchReturn ==
  /\ bf.pc = "loop"
  /\ LET r == FillBatch(bf.documents, bf.idx, bf.batch, bf.batchSize, bf.uuid)
     IN /\ ~r.full
        /\ bf' = [bf EXCEPT !.pc = "returned", !.idx = r.idx, !.uuid = r.uuid,
                            !.batch = r.batch, !.ret = bf.sentCount,
                            !.resp = IF bf.mode = "handler"
                                     THEN [statusCode |-> 200,
                                           body |-> [read |-> Len(bf.documents),
                                                     sent |-> bf.sentCount]]
                                     ELSE NoResp]
  /\ UNCHANGED <<mongo, sr, store, eventQueue, dlqEventQueue, inv, published, written>>

\* ------------------------------------------------------------------------
\* Batch consumer (functions/embed)
\* ------------------------------------------------------------------------
MaxReceiveCount == 3
EsmBatchSize == 10
TimeThreshold == 1000
LambdaTimeout == 120000

\* the id of the n-th event made by the Atlas trigger
TriggerUuid(n) == 1001 + 2 * n

\* values getRemainingTimeInMillis() is seen to return: enough, and too little
TimeReadings == {TimeThreshold, TimeThreshold - 1}

\* the event a body carries when it is no JSON text, or JSON without detail
NullValue ==
  [version |-> "", id |-> 0, detailType |-> "",
   detail |-> [operationType |-> "",
               fullDocument |-> [_id |-> 0, plot |-> Absent,
                                 plot_embedding |-> Absent, title |-> Absent,
                                 released |-> Absent],
               documentKey |-> [_id |-> 0]]]

GarbageBody == [text |-> "garbage", value |-> NullValue]

NoDetailBody == [text |-> "nodetail", value |-> NullValue]

\* the body sendToQueueInBatches builds for document d with key k
EventBody(k, d, u) == Entry(WithId(k, d), u).MessageBody

\* JSON.parse(body) throws
ParseThrows(body) == body.text = "garbage"

\* the destructuring of payload.detail throws
ExtractThrows(body) == body.text = "nodetail"

\* documentKey._id
KeyOf(body) == body.value.detail.documentKey._id

\* fullDocument without _id
SnapshotOf(body) ==
  LET d == body.value.detail.fullDocument
  IN [plot |-> d.plot, plot_embedding |-> d.plot_embedding, title |-> d.title,
      released |-> d.released]

\* the state of one record of the batch in recordHandler
NewRecord ==
  [pc |-> "new", error |-> "", timeRead |-> 0 - 1, embedCalls |-> 0, storeCalls |-> 0,
   modifiedCount |-> 0 - 1, again |-> FALSE, returned |-> "none",
   subsegment |-> "none", document |-> Doc(Absent, Absent, Absent)]

\* the invocation the event source mapping starts for the messages ms
NewInvocation(ms) ==
  [pc |-> "running", records |-> ms, rec |-> [i \in 1..Len(ms) |-> NewRecord],
   remaining |-> LambdaTimeout, report |-> {}, logger |-> LoggerIdle]

\* faulty variant, kept for comparison: the threshold is taken in seconds
TimeAboutToExpireSeconds(t) == t < TimeThreshold \div 1000

\* lambdaContext.getRemainingTimeInMillis() < 1000
TimeAboutToExpire(t) == t < TimeThreshold

BodyOfRecord(i) == eventQueue[inv.records[i]].body

\* logger.removeKeys(['documentId', 'messageId']) in the finally block
RemoveKeys(lg) == [lg EXCEPT !.documentId = NoKey, !.messageId = NoKey]

\* the finally block of recordHandler: the record's subsegment is closed and
\* the two keys are removed from the shared logger
Finally(r) == [r EXCEPT !.subsegment = "closed"]

\* recordHandler from its entry to its first await (the Bedrock call) or its throw;
\* records are started in delivery order; t is the remaining time it reads
RecordStart(i, t) ==
  /\ inv.pc = "running"
  /\ i \in 1..Len(inv.records)
  /\ inv.rec[i].pc = "new"
  /\ \A j \in 1..(i - 1) : inv.rec[j].pc # "new"
  /\ t <= inv.remaining
  /\ LET body == BodyOfRecord(i)
         r == [inv.rec[i] EXCEPT !.timeRead = t, !.subsegment = "open"]
         lg == [inv.logger EXCEPT !.messageId = inv.records[i]]
         next == IF TimeAboutToExpire(t)
                   THEN Finally([r EXCEPT !.pc = "failed", !.error = "time"])
                 ELSE IF ParseThrows(body)
                   THEN Finally([r EXCEPT !.pc = "failed", !.error = "parse"])
                 ELSE IF ExtractThrows(body)
                   THEN Finally([r EXCEPT !.pc = "failed", !.error = "extract"])
                 ELSE [r EXCEPT !.pc = "embedding", !.embedCalls = r.embedCalls + 1,
                                !.document = SnapshotOf(body)]
         logger == IF next.pc = "failed" THEN RemoveKeys(lg)
                   ELSE [lg EXCEPT !.documentId = KeyOf(body)]
     IN inv' = [inv EXCEPT !.rec[i] = next, !.remaining = t, !.logger = logger]
  /\ UNCHANGED <<mongo, sr, store, eventQueue, dlqEventQueue, bf, published, written>>

\* the batch processor calls recordHandler for every record of the batch in
\* one synchronous pass (records.map) and awaits the promises together: the
\* continuation of an await runs only once every record has been started
AllStarted(rec) == \A j \in DOMAIN rec : rec[j].pc # "new"

\* getEmbedding resolves: the vector is merged into the document and
\* writeEmbedding is called
EmbeddingReturns(i) ==
  /\ inv.pc = "running"
  /\ AllStarted(inv.rec)
  /\ i \in 1..Len(inv.records)
  /\ inv.rec[i].pc = "embedding"
  /\ inv.rec[i].document.plot # Absent
  /\ LET vector == createEmbedding(inv.rec[i].document.plot, Response(200, "embedding"))
     IN inv' = [inv EXCEPT !.rec[i].pc = "writing", !.rec[i].returned = vector,
                           !.rec[i].document.plot_embedding = vector]
  /\ UNCHANGED <<mongo, sr, store, eventQueue, dlqEventQueue, bf, published, written>>

\* getEmbedding resolves with undefined (a 200 response whose body holds no
\* embedding): the undefined value is put into the document, which
\* replaceOne will store as null, and writeEmbedding is called
EmbeddingReturnsNothing(i) ==
  /\ inv.pc = "running"
  /\ AllStarted(inv.rec)
  /\ i \in 1..Len(inv.records)
  /\ inv.rec[i].pc = "embedding"
  /\ inv.rec[i].document.plot # Absent
  /\ LET vector == createEmbedding(inv.rec[i].document.plot, Response(200, "noembedding"))
     IN inv' = [inv EXCEPT !.rec[i].pc = "writing", !.rec[i].returned = vector,
                           !.rec[i].document.plot_embedding =
                             IF vector = Undefined THEN Null ELSE vector]
  /\ UNCHANGED <<mongo, sr, store, eventQueue, dlqEventQueue, bf, published, written>>

\* getEmbedding rejects
EmbeddingFails(i) ==
  /\ inv.pc = "running"
  /\ AllStarted(inv.rec)
  /\ i \in 1..Len(inv.records)
  /\ inv.rec[i].pc = "embedding"
  /\ inv' = [inv EXCEPT !.rec[i] = Finally([@ EXCEPT !.pc = "failed", !.error = "embed"]),
                        !.logger = RemoveKeys(@)]
  /\ UNCHANGED <<mongo, sr, store, eventQueue, dlqEventQueue, bf, published, written>>

\* response.modifiedCount of replaceOne({_id: key}, document): a replacement
\* equal to the stored document modifies nothing
ModifiedCount(st, key, document) ==
  IF key \in DOMAIN st /\ st[key] # document THEN 1 ELSE 0

\* faulty variant, kept for comparison: replaceOne with upsert inserts the document
ReplaceOneUpsert(st, key, document) ==
  IF key \in DOMAIN st THEN [st EXCEPT ![key] = document] ELSE Append(st, document)

\* faulty variant, kept for comparison: the fields the replacement lacks are kept
ReplaceOneMerge(st, key, document) ==
  IF key \in DOMAIN st
  THEN [st EXCEPT ![key] = [f \in DOMAIN document |->
                              IF document[f] = Absent THEN st[key][f] ELSE document[f]]]
  ELSE st

\* faulty variant, kept for comparison: the filter matches every document
ReplaceOneAll(st, key, document) == [k \in DOMAIN st |-> document]

\* the collection after replaceOne({_id: key}, document), which does not upsert
ReplaceOne(st, key, document) ==
  IF key \in DOMAIN st THEN [st EXCEPT ![key] = document] ELSE st

\* faulty variant, kept for comparison: the modified count is not looked at
UnableToUpdateNever(modifiedCount) == FALSE

\* response.modifiedCount !== 1
UnableToUpdate(modifiedCount) == modifiedCount # 1

\* faulty variant, kept for comparison: the rule forwards the events to the event queue
RuleTargetsEventQueue == {"eventQueue"}

\* the SQS targets of LogAllEventsRule (the log group target keeps no state)
RuleTargets == {"dlqEventQueue"}

\* the change event the database trigger publishes for a replace of the
\* document with key k by d (the trigger is set up for Insert, Update and
\* Replace with the full document; a replace carries no updateDescription
\* and so passes the trigger's match expression)
ReplaceEventBody(k, d, u) ==
  [EventBody(k, d, u) EXCEPT !.value.detail.operationType = "replace"]

\* the events of the bus that come from updates made by users of the collection
UserEvents == {e \in published : e.value.detail.operationType = "update"}

\* writeEmbedding: replaceOne resolves
WriteReturns(i) ==
  /\ inv.pc = "running"
  /\ AllStarted(inv.rec)
  /\ i \in 1..Len(inv.records)
  /\ inv.rec[i].pc = "writing"
  /\ LET key == KeyOf(BodyOfRecord(i))
         document == inv.rec[i].document
         event == <<key, SnapshotOf(BodyOfRecord(i))>>
         mc == ModifiedCount(store, key, document)
         change == ReplaceEventBody(key, document, TriggerUuid(Cardinality(published)))
     IN /\ store' = ReplaceOne(store, key, document)
        /\ written' = IF mc = 1 THEN written \cup {event} ELSE written
        /\ published' = IF mc = 1 THEN published \cup {change} ELSE published
        /\ eventQueue' = IF mc = 1 /\ "eventQueue" \in RuleTargets
                         THEN Append(eventQueue, Message(change)) ELSE eventQueue
        /\ dlqEventQueue' = IF mc = 1 /\ "dlqEventQueue" \in RuleTargets
                            THEN Append(dlqEventQueue, change) ELSE dlqEventQueue
        /\ inv' = [inv EXCEPT
                     !.rec[i].storeCalls = inv.rec[i].storeCalls + 1,
                     !.rec[i].modifiedCount = mc,
                     !.rec[i].again = (event \in written
                                        /\ key \in DOMAIN store
                                        /\ store[key] = document),
                     !.rec[i].pc = IF UnableToUpdate(mc) THEN "failed" ELSE "ok",
                     !.rec[i].error = IF UnableToUpdate(mc) THEN "write" ELSE "",
                     !.rec[i].subsegment = "closed",
                     !.logger = RemoveKeys(@)]
  /\ UNCHANGED <<mongo, sr, bf>>

\* faulty variant, kept for comparison: a rejected replaceOne is tried again
WriteFailsRetries(i) ==
  /\ inv.pc = "running"
  /\ AllStarted(inv.rec)
  /\ i \in 1..Len(inv.records)
  /\ inv.rec[i].pc = "writing"
  /\ inv.rec[i].storeCalls < 2
  /\ inv' = [inv EXCEPT !.rec[i].storeCalls = inv.rec[i].storeCalls + 1]
  /\ UNCHANGED <<mongo, sr, store, eventQueue, dlqEventQueue, bf, published, written>>

\* writeEmbedding: replaceOne rejects
WriteFails(i) ==
  /\ inv.pc = "running"
  /\ AllStarted(inv.rec)
  /\ i \in 1..Len(inv.records)
  /\ inv.rec[i].pc = "writing"
  /\ inv' = [inv EXCEPT !.rec[i].storeCalls = inv.rec[i].storeCalls + 1,
                        !.rec[i].pc = "failed", !.rec[i].error = "write",
                        !.rec[i].subsegment = "closed",
                        !.logger = RemoveKeys(@)]
  /\ UNCHANGED <<mongo, sr, store, eventQueue, dlqEventQueue, bf, published, written>>

\* the records whose recordHandler threw
FailedRecords(rec) == {i \in DOMAIN rec : rec[i].pc = "failed"}

\* faulty variant, kept for comparison: the batch processor stops at the first failed record
AllProcessedOrOneFailed(rec) ==
  \/ \A i \in DOMAIN rec : rec[i].pc \in {"ok", "failed"}
  \/ \E i \in DOMAIN rec : rec[i].pc = "failed"

\* the batch processor has a result for every record
AllProcessed(rec) == \A i \in DOMAIN rec : rec[i].pc \in {"ok", "failed"}

\* BatchProcessor.clean(): when every record of the batch failed it throws
\* ("All records failed processing") instead of building the response
EntireBatchFailed(rec) == rec # <<>> /\ FailedRecords(rec) = DOMAIN rec

\* faulty variant, kept for comparison: one failure reports the whole batch
BatchItemFailuresWholeBatch(records, rec) ==
  IF FailedRecords(rec) = {} THEN {} ELSE {records[i] : i \in DOMAIN records}

\* batchItemFailures: the message ids of the failed records
BatchItemFailures(records, rec) == {records[i] : i \in FailedRecords(rec)}

\* faulty variant, kept for comparison: the partial response is ignored
AfterInvocationKeepsAll(q, records, failures) ==
  [m \in DOMAIN q |->
     IF \E i \in DOMAIN records : records[i] = m
     THEN [q[m] EXCEPT !.st = "visible"]
     ELSE q[m]]

\* the queue after an invocation: the messages of the batch that are not
\* reported are deleted, the reported ones become visible again
AfterInvocation(q, records, failures) ==
  [m \in DOMAIN q |->
     IF \E i \in DOMAIN records : records[i] = m
     THEN [q[m] EXCEPT !.st = IF m \in failures THEN "visible" ELSE "deleted"]
     ELSE q[m]]

Range(f) == {f[i] : i \in DOMAIN f}

\* processPartialResponse returns the partial response
HandlerReturns ==
  /\ inv.pc = "running"
  /\ AllProcessed(inv.rec)
  /\ ~EntireBatchFailed(inv.rec)
  /\ LET failures == BatchItemFailures(inv.records, inv.rec)
     IN /\ inv' = [inv EXCEPT !.pc = "returned", !.report = failures]
        /\ eventQueue' = AfterInvocation(eventQueue, inv.records, failures)
  /\ UNCHANGED <<mongo, sr, store, dlqEventQueue, bf, published, written>>

\* processPartialResponse throws: every record failed, the invocation fails
\* and the whole batch becomes visible again
HandlerThrows ==
  /\ inv.pc = "running"
  /\ AllProcessed(inv.rec)
  /\ EntireBatchFailed(inv.rec)
  /\ inv' = [inv EXCEPT !.pc = "threw"]
  /\ eventQueue' = AfterInvocation(eventQueue, inv.records, Range(inv.records))
  /\ UNCHANGED <<mongo, sr, store, dlqEventQueue, bf, published, written>>

\* ------------------------------------------------------------------------
\* The event queue, its dead-letter queue and the EventBridge rule
\* ------------------------------------------------------------------------
RECURSIVE SetToSeq(_)
\* the members of a set of message ids in increasing order
SetToSeq(S) ==
  IF S = {} THEN <<>>
  ELSE LET m == CHOOSE x \in S : \A y \in S : x <= y
       IN <<m>> \o SetToSeq(S \ {m})

\* faulty variant, kept for comparison: the redrive policy lets a message be received once more
ReceivableOnceMore(q) ==
  {m \in DOMAIN q : q[m].st = "visible" /\ q[m].receiveCount <= MaxReceiveCount}

\* the messages the event source mapping can receive
Receivable(q) ==
  {m \in DOMAIN q : q[m].st = "visible" /\ q[m].receiveCount < MaxReceiveCount}

\* the event source mapping receives the messages S and invokes the embed
\* handler with them (one invocation at a time)
Deliver(S) ==
  /\ inv.pc \in {"idle", "returned", "threw"}
  /\ S # {}
  /\ S \subseteq Receivable(eventQueue)
  /\ Cardinality(S) <= EsmBatchSize
  /\ eventQueue' = [m \in DOMAIN eventQueue |->
                      IF m \in S
                      THEN [eventQueue[m] EXCEPT !.st = "inflight",
                                                 !.receiveCount = @ + 1]
                      ELSE eventQueue[m]]
  /\ inv' = NewInvocation(SetToSeq(S))
  /\ UNCHANGED <<mongo, sr, store, dlqEventQueue, bf, published, written>>

\* redrive policy: a visible message already received maxReceiveCount times
\* is moved to the dead-letter queue instead of being received again
MoveToDlq(m) ==
  /\ m \in DOMAIN eventQueue
  /\ eventQueue[m].st = "visible"
  /\ eventQueue[m].receiveCount >= MaxReceiveCount
  /\ eventQueue' = [eventQueue EXCEPT ![m].st = "dlq"]
  /\ dlqEventQueue' = Append(dlqEventQueue, eventQueue[m].body)
  /\ UNCHANGED <<mongo, sr, store, bf, inv, published, written>>

\* a document's plot is updated in Atlas; the database trigger publishes the
\* change event to the partner bus, whose rule forwards it to its targets
AtlasTrigger(k, text) ==
  /\ Cardinality(UserEvents) < MaxEvents
  /\ k \in DOMAIN store
  /\ store[k].plot # text
  /\ LET d == [store[k] EXCEPT !.plot = text]
         body == EventBody(k, d, TriggerUuid(Cardinality(published)))
     IN /\ store' = [store EXCEPT ![k] = d]
        /\ published' = published \cup {body}
        /\ eventQueue' = IF "eventQueue" \in RuleTargets
                         THEN Append(eventQueue, Message(body)) ELSE eventQueue
        /\ dlqEventQueue' = IF "dlqEventQueue" \in RuleTargets
                            THEN Append(dlqEventQueue, body) ELSE dlqEventQueue
  /\ UNCHANGED <<mongo, sr, bf, inv, written>>

\* ------------------------------------------------------------------------
\* Search (functions/search)
\* ------------------------------------------------------------------------
K == 3

\* the fixed message of the 500 response
GenericMessage == "An error occurred while searching the movies, please try again later."

\* the request bodies: no body, a text that is no JSON, JSON objects
\* without query, with an empty query and with a query text
NoQuery == "undefined"

SearchBody(text, query) == [text |-> text, query |-> query]

SearchBodies ==
  {SearchBody("null", NoQuery), SearchBody("garbage", NoQuery),
   SearchBody("json", NoQuery), SearchBody("json", ""),
   SearchBody("json", "plotA"), SearchBody("json", "plotB")}

\* JSON.parse(body || '{}') throws
SearchParseThrows(body) == body.text = "garbage"

\* const { query } = JSON.parse(body || '{}')
QueryOf(body) == IF body.text = "json" THEN body.query ELSE NoQuery

\* the body validator of POST /search: a JSON object with a string query
\* (any string, the empty one included)
BodyValidator(body) == body.text = "json" /\ body.query # NoQuery

\* no response yet, with the shape of the responses of the search handler
SrNoResp == [statusCode |-> 0, message |-> "", items |-> <<>>]

SrIdle ==
  [pc |-> "idle", body |-> SearchBody("null", NoQuery), query |-> NoQuery,
   embedding |-> Absent, returned |-> "none", embedCalls |-> 0, searches |-> 0,
   error |-> "",
   resp |-> SrNoResp]

\* faulty variant, kept for comparison: the model embeds any input text
InvokeModelAcceptsAnyText(inputText) == TRUE

\* InvokeModel of the Titan embeddings model: inputText is required and has
\* a minimum length of 1, any other request is refused
InvokeModelAccepts(inputText) == inputText # NoQuery /\ inputText # ""

\* the similarity score (in hundredths) of a stored vector for a query vector
Score(q, v) ==
  IF q = v THEN 100
  ELSE IF q = "vecC" \/ v = "vecC" THEN 70
  ELSE 40

\* the keys of the documents the index holds: those with plot_embedding
Indexed(st) == {k \in DOMAIN st : st[k].plot_embedding # Absent}

RECURSIVE ByScore(_, _, _)
\* the keys S ordered by descending score for the query vector q
ByScore(st, q, S) ==
  IF S = {} THEN <<>>
  ELSE LET best == CHOOSE k \in S :
                     \A j \in S :
                       \/ Score(q, st[k].plot_embedding) > Score(q, st[j].plot_embedding)
                       \/ /\ Score(q, st[k].plot_embedding) = Score(q, st[j].plot_embedding)
                          /\ k <= j
       IN <<best>> \o ByScore(st, q, S \ {best})

\* faulty variant, kept for comparison: every indexed document is returned
KnnBetaAll(st, q, k) == ByScore(st, q, Indexed(st))

\* $search knnBeta {vector: q, path: 'plot_embedding', k}: the k nearest
\* indexed documents, the nearest first
KnnBeta(st, q, k) ==
  LET s == ByScore(st, q, Indexed(st))
  IN IF Len(s) <= k THEN s ELSE SubSeq(s, 1, k)

\* $project {title: 1, plot: 1, score: {$meta: 'searchScore'}}, _id included
Project(st, q, key) ==
  [_id |-> ObjectId(key), title |-> st[key].title, plot |-> st[key].plot,
   score |-> Score(q, st[key].plot_embedding)]

\* knnSearch(embedding)
knnSearch(st, embedding) ==
  LET ks == KnnBeta(st, embedding, K)
  IN [i \in 1..Len(ks) |-> Project(st, embedding, ks[i])]

\* JSON.stringify(items): the ObjectIds become hex strings
ItemsToJson(items) == [i \in 1..Len(items) |-> [items[i] EXCEPT !._id = ToHex(items[i]._id)]]

\* faulty variant, kept for comparison: the response carries the error's message
ErrorResponseLeaks(error) == [statusCode |-> 500, message |-> error, items |-> <<>>]

\* faulty variant, kept for comparison: the outer catch answers with status 200
ErrorResponseOk(error) == [statusCode |-> 200, message |-> GenericMessage, items |-> <<>>]

\* the response of the outer catch, whatever the error
ErrorResponse(error) == [statusCode |-> 500, message |-> GenericMessage, items |-> <<>>]

\* the search handler up to its first await (the Bedrock call) or its
\* failure to parse the body
SearchInvoke(body) ==
  /\ sr.pc = "idle"
  /\ sr' = IF SearchParseThrows(body)
           THEN [sr EXCEPT !.pc = "failed", !.body = body, !.error = "parse",
                           !.resp = ErrorResponse("Unexpected token in JSON")]
           ELSE [sr EXCEPT !.pc = "embedding", !.body = body, !.query = QueryOf(body),
                           !.embedCalls = sr.embedCalls + 1]
  /\ UNCHANGED <<mongo, store, eventQueue, dlqEventQueue, bf, inv, published, written>>

\* a request to POST /search with content type application/json: the
\* gateway validates the body and then invokes the handler
GatewaySearch(body) ==
  IF BodyValidator(body)
  THEN SearchInvoke(body)
  ELSE /\ sr.pc = "idle"
       /\ sr' = [sr EXCEPT !.pc = "rejected", !.body = body,
                           !.resp = [statusCode |-> 400, message |-> "Invalid request body",
                                     items |-> <<>>]]
       /\ UNCHANGED <<mongo, store, eventQueue, dlqEventQueue, bf, inv, published, written>>

\* getEmbedding resolves with the vector of the query
SearchEmbeddingReturns ==
  /\ sr.pc = "embedding"
  /\ InvokeModelAccepts(sr.query)
  /\ LET vector == createEmbedding(sr.query, Response(200, "embedding"))
     IN sr' = [sr EXCEPT !.pc = "searching", !.embedding = vector, !.returned = vector,
                         !.searches = sr.searches + 1]
  /\ UNCHANGED <<mongo, store, eventQueue, dlqEventQueue, bf, inv, published, written>>

\* getEmbedding resolves without an embedding: !embedding
SearchEmbeddingEmpty ==
  /\ sr.pc = "embedding"
  /\ InvokeModelAccepts(sr.query)
  /\ createEmbedding(sr.query, Response(200, "noembedding")) = Undefined
  /\ sr' = [sr EXCEPT !.pc = "failed", !.error = "empty", !.returned = Undefined,
                      !.resp = ErrorResponse("Empty embedding returned by the API")]
  /\ UNCHANGED <<mongo, store, eventQueue, dlqEventQueue, bf, inv, published, written>>

\* getEmbedding resolves with an empty vector, which passes !embedding:
\* knnSearch is called with it
SearchEmbeddingReturnsEmptyVector ==
  /\ sr.pc = "embedding"
  /\ InvokeModelAccepts(sr.query)
  /\ LET vector == createEmbedding(sr.query, Response(200, "emptyembedding"))
     IN sr' = [sr EXCEPT !.pc = "searching", !.embedding = vector, !.returned = vector,
                         !.searches = sr.searches + 1]
  /\ UNCHANGED <<mongo, store, eventQueue, dlqEventQueue, bf, inv, published, written>>

\* faulty variant, kept for comparison: a failed embedding call is made again
SearchEmbeddingFailsRetries ==
  /\ sr.pc = "embedding"
  /\ sr.embedCalls < K
  /\ sr' = [sr EXCEPT !.embedCalls = sr.embedCalls + 1]
  /\ UNCHANGED <<mongo, store, eventQueue, dlqEventQueue, bf, inv, published, written>>

\* getEmbedding rejects: the model refuses the request, or the call fails
SearchEmbeddingFails ==
  /\ sr.pc = "embedding"
  /\ sr' = [sr EXCEPT !.pc = "failed", !.error = "embed",
                      !.resp = ErrorResponse("Error in model response")]
  /\ UNCHANGED <<mongo, store, eventQueue, dlqEventQueue, bf, inv, published, written>>

\* knnSearch resolves (the index refuses a vector that has not its
\* dimensions): the handler returns its 200 response
SearchReturns ==
  /\ sr.pc = "searching"
  /\ sr.embedding # EmptyVector
  /\ sr' = [sr EXCEPT !.pc = "returned",
                      !.resp = [statusCode |-> 200, message |-> "",
                                items |-> ItemsToJson(knnSearch(store, sr.embedding))]]
  /\ UNCHANGED <<mongo, store, eventQueue, dlqEventQueue, bf, inv, published, written>>

\* knnSearch rejects
SearchFails ==
  /\ sr.pc = "searching"
  /\ sr' = [sr EXCEPT !.pc = "failed", !.error = "search",
                      !.resp = ErrorResponse("aggregate failed")]
  /\ UNCHANGED <<mongo, store, eventQueue, dlqEventQueue, bf, inv, published, written>>

\* the documents of the collection the search runs against
SearchDocs ==
  {DocEmbedded, DocStale, DocCandidate, DocEmbOnly,
   Doc("plotB", Embed("plotB"), "T"), Doc("plotC", "vecC", "T")}

InitSearch ==
  /\ \E n \in 0..MaxSearchDocs : store \in [1..n -> SearchDocs]
  /\ eventQueue = <<>>
  /\ bf = BfIdle
  /\ dlqEventQueue = <<>>
  /\ inv = InvIdle
  /\ sr = SrIdle
  /\ mongo = MongoIdle
  /\ published = {}
  /\ written = {}

NextSearch ==
  \/ \E body \in SearchBodies : SearchInvoke(body)
  \/ \E body \in SearchBodies : GatewaySearch(body)
  \/ SearchEmbeddingReturns
  \/ SearchEmbeddingEmpty
  \/ SearchEmbeddingReturnsEmptyVector
  \/ SearchEmbeddingFails
  \/ SearchReturns
  \/ SearchFails

SpecSearch == InitSearch /\ [][NextSearch]_vars

\* ------------------------------------------------------------------------
\* The MongoDB client of a function instance (commons/helpers)
\* ------------------------------------------------------------------------
\* getStringFromEnv: an unset (or empty) variable makes it throw; env tells
\* whether MONGODB_CONNECTION_STRING_SECRET_NAME is set in the instance
GetStringFromEnvThrows(env) == ~env

\* getMongoCollection from its entry to its first await or its return
GetMongoCollectionCall(c) ==
  /\ mongo.exit = "running"
  /\ mongo.call[c].pc = "idle"
  /\ mongo' = IF mongo.mongoClient # NoClient
                THEN [mongo EXCEPT !.call[c].pc = "returned",
                                   !.call[c].ret = mongo.collection]
                ELSE IF GetStringFromEnvThrows(mongo.env)
                THEN [mongo EXCEPT !.call[c].pc = "threw",
                                   !.call[c].error =
                                     "MONGODB_CONNECTION_STRING_SECRET_NAME is not set"]
                ELSE [mongo EXCEPT !.call[c].pc = "secret"]
  /\ UNCHANGED <<store, eventQueue, dlqEventQueue, bf, inv, sr, published, written>>

\* getSecret resolves: without a secret the call throws; otherwise a
\* MongoClient is constructed and assigned, connect() is started and not
\* awaited, the collection handle is taken from the new client and returned
SecretReturns(c, secret) ==
  /\ mongo.exit = "running"
  /\ mongo.call[c].pc = "secret"
  /\ mongo' = IF secret = Undefined
                THEN [mongo EXCEPT !.call[c].pc = "threw",
                                   !.call[c].error = "MongoDB connection string not found"]
                ELSE LET n == mongo.created + 1
                     IN [mongo EXCEPT !.created = n, !.mongoClient = n,
                                      !.collection = n,
                                      !.connection = Append(@, "connecting"),
                                      !.call[c].pc = "returned", !.call[c].ret = n]
  /\ UNCHANGED <<store, eventQueue, dlqEventQueue, bf, inv, sr, published, written>>

\* faulty variant, kept for comparison: a failed retrieval leaves a client without collection behind
SecretFailsLeavesClient(c) ==
  /\ mongo.exit = "running"
  /\ mongo.call[c].pc = "secret"
  /\ mongo' = [mongo EXCEPT !.call[c].pc = "threw", !.call[c].error = "getSecret",
                            !.created = @ + 1, !.mongoClient = mongo.created + 1,
                            !.connection = Append(@, "failed")]
  /\ UNCHANGED <<store, eventQueue, dlqEventQueue, bf, inv, sr, published, written>>

\* getSecret rejects
SecretFails(c) ==
  /\ mongo.exit = "running"
  /\ mongo.call[c].pc = "secret"
  /\ mongo' = [mongo EXCEPT !.call[c].pc = "threw", !.call[c].error = "getSecret"]
  /\ UNCHANGED <<store, eventQueue, dlqEventQueue, bf, inv, sr, published, written>>

\* the connect() of client n succeeds
ConnectResolves(n) ==
  /\ mongo.exit = "running"
  /\ n \in DOMAIN mongo.connection
  /\ mongo.connection[n] = "connecting"
  /\ mongo' = [mongo EXCEPT !.connection[n] = "connected"]
  /\ UNCHANGED <<store, eventQueue, dlqEventQueue, bf, inv, sr, published, written>>

\* the connect() of client n fails
ConnectRejects(n) ==
  /\ mongo.exit = "running"
  /\ n \in DOMAIN mongo.connection
  /\ mongo.connection[n] = "connecting"
  /\ mongo' = [mongo EXCEPT !.connection[n] = "failed"]
  /\ UNCHANGED <<store, eventQueue, dlqEventQueue, bf, inv, sr, published, written>>

\* the SIGTERM listener: await mongoClient.close(), then process.exit(0);
\* with mongoClient unassigned the member access throws a TypeError, the
\* listener's promise rejects and process.exit(0) is not reached
Sigterm ==
  /\ mongo.exit = "running"
  /\ mongo' = IF mongo.mongoClient = NoClient
                THEN [mongo EXCEPT !.exit = "rejected"]
                ELSE [mongo EXCEPT !.connection[mongo.mongoClient] = "closed",
                                   !.exit = "exit0"]
  /\ UNCHANGED <<store, eventQueue, dlqEventQueue, bf, inv, sr, published, written>>

InitMongo ==
  /\ store = <<>>
  /\ eventQueue = <<>>
  /\ dlqEventQueue = <<>>
  /\ bf = BfIdle
  /\ inv = InvIdle
  /\ sr = SrIdle
  /\ \E env \in BOOLEAN : mongo = [MongoIdle EXCEPT !.env = env]
  /\ published = {}
  /\ written = {}

NextMongo ==
  \/ \E c \in Calls : GetMongoCollectionCall(c)
  \/ \E c \in Calls, secret \in Secrets : SecretReturns(c, secret)
  \/ \E c \in Calls : SecretFails(c)
  \/ \E n \in Calls : ConnectResolves(n)
  \/ \E n \in Calls : ConnectRejects(n)
  \/ Sigterm

SpecMongo == InitMongo /\ [][NextMongo]_vars

\* ------------------------------------------------------------------------
\* One delivered batch
\* ------------------------------------------------------------------------
PipelineStore == <<DocCandidate, DocStale>>

MissingKey == Len(PipelineStore) + 1

\* the bodies a message of the event queue may carry
Bodies(u) ==
  {EventBody(1, DocCandidate, u), EventBody(2, DocStale, u),
   EventBody(MissingKey, DocCandidate, u), EventBody(1, DocBare, u),
   EventBody(1, DocUntitled, u),
   GarbageBody, NoDetailBody}

\* the queues holding n messages with bodies chosen freely
Queues(n) ==
  {q \in [1..n -> [body : UNION {Bodies(u) : u \in 1..n},
                   receiveCount : {0}, st : {"visible"}]] :
     \A m \in 1..n : q[m].body \in Bodies(m)}

Received(q) == [m \in DOMAIN q |-> [q[m] EXCEPT !.st = "inflight", !.receiveCount = 1]]

InitBatch ==
  /\ store = PipelineStore
  /\ \E n \in 1..MaxRecords : \E q \in Queues(n) :
       /\ eventQueue = Received(q)
       /\ inv = NewInvocation([i \in 1..n |-> i])
  /\ dlqEventQueue = <<>>
  /\ bf = BfIdle
  /\ sr = SrIdle
  /\ mongo = MongoIdle
  /\ published = {}
  /\ written = {}

RecordStep ==
  \E i \in 1..MaxRecords :
    \/ \E t \in TimeReadings : RecordStart(i, t)
    \/ EmbeddingReturns(i)
    \/ EmbeddingReturnsNothing(i)
    \/ EmbeddingFails(i)
    \/ WriteReturns(i)
    \/ WriteFails(i)

NextBatch == RecordStep \/ HandlerReturns \/ HandlerThrows

SpecBatch == InitBatch /\ [][NextBatch]_vars

\* ------------------------------------------------------------------------
\* The event queue over time: deliveries, redeliveries, dead-lettering
\* ------------------------------------------------------------------------
\* the bodies of the messages a queue starts with
QueueBodies(u) == {EventBody(1, DocCandidate, u), GarbageBody}

InitQueue ==
  /\ store = PipelineStore
  /\ \E n \in 1..MaxMsgs : \E q \in Queues(n) :
       /\ \A m \in 1..n : q[m].body \in QueueBodies(m)
       /\ eventQueue = q
  /\ dlqEventQueue = <<>>
  /\ bf = BfIdle
  /\ inv = InvIdle
  /\ sr = SrIdle
  /\ mongo = MongoIdle
  /\ published = {}
  /\ written = {}

\* the steps SQS, the event source mapping and the embed function take
QueueStep ==
  \/ \E S \in SUBSET (1..(MaxMsgs + MaxEvents)) : Deliver(S)
  \/ \E m \in 1..(MaxMsgs + MaxEvents) : MoveToDlq(m)
  \/ RecordStep
  \/ HandlerReturns
  \/ HandlerThrows

SpecQueue == InitQueue /\ [][QueueStep]_vars

\* SQS keeps redelivering, a started invocation runs to its end
SpecQueueFair == SpecQueue /\ WF_vars(QueueStep)

\* ------------------------------------------------------------------------
\* The queue together with the Atlas trigger and the partner event bus
\* ------------------------------------------------------------------------
NextBus ==
  \/ QueueStep
  \/ \E k \in DOMAIN store, text \in Texts : AtlasTrigger(k, text)

SpecBus == InitQueue /\ [][NextBus]_vars

SpecBusFair == SpecBus /\ WF_vars(QueueStep)

\* ------------------------------------------------------------------------
\* sendToQueueInBatches called on any list with any batch size
\* ------------------------------------------------------------------------
DocList(n, d) == [i \in 1..n |-> WithId(i, d)]

Quiet ==
  /\ dlqEventQueue = <<>>
  /\ inv = InvIdle
  /\ sr = SrIdle
  /\ mongo = MongoIdle
  /\ published = {}
  /\ written = {}

InitDispatch ==
  /\ store = <<>>
  /\ eventQueue = <<>>
  /\ Quiet
  /\ \E n \in 0..MaxDocs, b \in 1..MaxBatch, d \in DocKinds :
       bf = [BfIdle EXCEPT !.pc = "loop", !.mode = "direct",
                           !.documents = DocList(n, d), !.batchSize = b]

NextDispatch == DispatchSend \/ DispatchSendFails \/ DispatchReturn

SpecDispatch == InitDispatch /\ [][NextDispatch]_vars

\* ------------------------------------------------------------------------
\* The backfill trigger against a store
\* ------------------------------------------------------------------------
Candidates(n) == [i \in 1..n |-> DocCandidate]

MixedHeads == UNION {[1..m -> DocKinds] : m \in 0..MaxMixed}

InitBackfill ==
  /\ \E h \in MixedHeads, n \in 0..MaxCand : store = h \o Candidates(n)
  /\ eventQueue = <<>>
  /\ bf = BfIdle
  /\ Quiet

NextBackfill ==
  \/ \E count \in CountParams : HandlerInvoke(count)
  \/ \E count \in CountParams : GatewayRequest(count)
  \/ HandlerReadFails
  \/ DispatchSend
  \/ DispatchSendFails
  \/ DispatchReturn

SpecBackfill == InitBackfill /\ [][NextBackfill]_vars

\* ------------------------------------------------------------------------
\* From the dispatcher to the consumer: documents read, sent and received
\* ------------------------------------------------------------------------
RoundTripDocs == {DocCandidate, DocDated, DocUntitled}

InitRoundTrip ==
  /\ \E n \in 1..MaxMsgs, b \in 1..MaxMsgs :
       /\ store \in [1..n -> RoundTripDocs]
       /\ bf = [BfIdle EXCEPT !.pc = "loop", !.mode = "direct",
                              !.documents = readDocuments(store, n), !.batchSize = b]
  /\ eventQueue = <<>>
  /\ Quiet

NextRoundTrip == DispatchSend \/ DispatchSendFails \/ DispatchReturn \/ QueueStep

SpecRoundTrip == InitRoundTrip /\ [][NextRoundTrip]_vars

\* ------------------------------------------------------------------------
\* Properties of the backfill dispatcher
\* ------------------------------------------------------------------------

\* the documents of the store that have plot and lack plot_embedding
CandidateKeys == {k \in DOMAIN store : store[k].plot # Absent /\ store[k].plot_embedding = Absent}

\* the keys of the documents a queue's messages carry
QueuedKeys == {KeyOf(eventQueue[m].body) : m \in DOMAIN eventQueue}

\* C1: when sendToQueueInBatches returns for N documents and a batch size
\* B >= 1 it has made floor(N/B) sends, has enqueued B*floor(N/B) messages (one
\* for each of the first B*floor(N/B) documents), returns that number, and no
\* message carries one of the trailing N mod B documents.
C1_DispatchSendsFullBatchesOnly ==
  bf.pc = "returned" =>
    LET N == Len(bf.documents)
        B == bf.batchSize
        full == N \div B
    IN /\ bf.sends = full
       /\ Len(eventQueue) = B * full
       /\ bf.ret = B * full
       /\ Len(bf.batch) = N % B
       /\ \A i \in 1..(B * full) :
            KeyOf(eventQueue[i].body) = ToHex(bf.documents[i]._id)
       /\ \A i \in (B * full + 1)..N : ToHex(bf.documents[i]._id) \notin QueuedKeys

\* 25 documents with batch size 10: 20 enqueued, 5 left in the batch
C1_Witness ==
  /\ bf.pc = "returned"
  /\ Len(bf.documents) = 25
  /\ bf.batchSize = 10
  /\ Len(eventQueue) = 20
  /\ bf.ret = 20
  /\ Len(bf.batch) = 5

\* C8: the backfill trigger with count=10 against a store holding exactly 7
\* candidates answers 200 {read: 7, sent: 0} and enqueues nothing.
C8_SevenCandidatesSendNothing ==
  (bf.pc = "returned" /\ bf.count = "10" /\ Cardinality(CandidateKeys) = 7) =>
    /\ bf.resp = [statusCode |-> 200, body |-> [read |-> 7, sent |-> 0]]
    /\ eventQueue = <<>>

C8_Witness ==
  /\ bf.pc = "returned"
  /\ bf.count = "10"
  /\ Cardinality(CandidateKeys) = 7
  /\ bf.resp.body = [read |-> 7, sent |-> 0]
  /\ Len(bf.batch) = 7

\* C9: the 200 response reports read = the number of documents readDocuments
\* returned and sent = the number of messages enqueued; with count=100 and at
\* least 100 candidates it is {read: 100, sent: 100}.
C9_ResponseCountsReadAndSent ==
  bf.pc = "returned" =>
    /\ bf.resp.statusCode = 200
    /\ bf.resp.body.read = Len(bf.documents)
    /\ bf.resp.body.sent = Len(eventQueue)
    /\ (bf.count = "100" /\ Cardinality(CandidateKeys) >= 100) =>
         bf.resp.body = [read |-> 100, sent |-> 100]

C9_Witness ==
  /\ bf.pc = "returned"
  /\ bf.count = "100"
  /\ Cardinality(CandidateKeys) > 100
  /\ bf.resp = [statusCode |-> 200, body |-> [read |-> 100, sent |-> 100]]
  /\ Len(eventQueue) = 100

\* the keys of the documents readDocuments returned
ReadKeys == {ToHex(bf.documents[i]._id) : i \in DOMAIN bf.documents}

\* C10: every document readDocuments returns is a stored document that has
\* plot and lacks plot_embedding; a document with plot_embedding is never
\* returned, with or without plot; and when the candidates are no more than
\* the limit, every candidate is returned.
C10_ReadDocumentsReturnsCandidates ==
  bf.pc = "loop" =>
    /\ \A i \in DOMAIN bf.documents :
         LET d == bf.documents[i]
         IN /\ d.plot # Absent
            /\ d.plot_embedding = Absent
            /\ ToHex(d._id) \in DOMAIN store
            /\ d = WithId(ToHex(d._id), store[ToHex(d._id)])
    /\ \A k \in DOMAIN store : store[k].plot_embedding # Absent => k \notin ReadKeys
    /\ Cardinality(CandidateKeys) <= LimitOf(bf.count).val => ReadKeys = CandidateKeys

\* a store whose first document has plot and plot_embedding, followed by
\* candidates that are all returned
C10_Witness ==
  /\ bf.pc = "loop"
  /\ bf.idx = 0
  /\ Len(store) > 3
  /\ store[1] = DocEmbedded
  /\ Cardinality(CandidateKeys) = Len(store) - 1
  /\ Cardinality(CandidateKeys) <= LimitOf(bf.count).val
  /\ ReadKeys = CandidateKeys

\* C11: the number of documents one backfill invocation reads never exceeds
\* the limit: at most count documents when the count parameter is given, at
\* most 50 when it is absent.
C11_ReadNeverExceedsLimit ==
  (bf.pc \in {"loop", "returned"} /\ ~LimitOf(bf.count).nan) =>
    Len(bf.documents) <= LimitOf(bf.count).val

\* the count parameters that are not positive integers: zero, negative or
\* not numeric (a blank count never passes the gateway)
BadCounts ==
  {c \in CountParams : RequestValidator(c) /\ (ParseInt(c).nan \/ ParseInt(c).val <= 0)}

\* C12: a backfill request whose count is zero, negative or not numeric is
\* a caller error: no 200 response, no document read, no message enqueued.
C12_BadCountIsCallerError ==
  bf.count \in BadCounts =>
    /\ bf.resp.statusCode # 200
    /\ bf.documents = <<>>
    /\ eventQueue = <<>>

\* C19: when the send of chunk k fails, the error leaves
\* sendToQueueInBatches and the handler (no value returned, no 200 response),
\* the k-1 chunks sent before stay in the queue, and nothing is sent afterwards.
C19_SendFailurePropagates ==
  /\ [](bf.error = "send" =>
          /\ bf.pc = "threw"
          /\ bf.ret = NoRet
          /\ bf.resp.statusCode # 200
          /\ Len(eventQueue) = bf.sends * bf.batchSize
          /\ \A i \in DOMAIN eventQueue :
               KeyOf(eventQueue[i].body) = ToHex(bf.documents[i]._id)
          /\ Len(bf.batch) = bf.batchSize
          /\ bf.idx = (bf.sends + 1) * bf.batchSize)
  /\ [][bf.pc = "threw" => (eventQueue' = eventQueue /\ bf' = bf)]_vars

\* the third chunk failed: two chunks of 10 are in the queue
C19_Witness ==
  /\ bf.pc = "threw"
  /\ bf.error = "send"
  /\ bf.sends = 2
  /\ Len(eventQueue) = 20
  /\ Len(bf.documents) >= 40
  /\ bf.resp = NoResp

\* C29: no step of a backfill invocation (the read, the sends, the return or
\* the failure) changes the document store.
C29_BackfillLeavesStoreUnchanged == [][store' = store]_vars

\* a backfill that read documents, sent two chunks and returned
C29_Witness ==
  /\ bf.pc = "returned"
  /\ bf.sends = 2
  /\ Len(eventQueue) = 20
  /\ Len(store) > 20
  /\ \A k \in DOMAIN store : store[k].title = "T"

\* C28: the batch handed to sendMessagesToQueue never holds more than
\* batchSize entries, and the Ids of its entries are pairwise distinct.
C28_BatchIdsDistinctAndBounded ==
  /\ Len(bf.lastIds) <= bf.batchSize
  /\ Len(bf.batch) <= bf.batchSize
  /\ \A i, j \in DOMAIN bf.lastIds : i # j => bf.lastIds[i] # bf.lastIds[j]
  /\ bf.sends > 0 => Len(bf.lastIds) = bf.batchSize

\* a second batch of 10 entries was handed over
C28_Witness ==
  /\ bf.sends = 2
  /\ bf.batchSize = 10
  /\ Len(bf.lastIds) = 10
  /\ Cardinality({bf.lastIds[i] : i \in DOMAIN bf.lastIds}) = 10

\* the messages of the event queue that carry the key of document i of the list
MessagesOf(i) ==
  {m \in DOMAIN eventQueue : KeyOf(eventQueue[m].body) = ToHex(bf.documents[i]._id)}

\* C35: at every point of a dispatch the messages enqueued are, in order,
\* the events of a prefix of the input list made of whole batches, no
\* document is in two messages; when the dispatch returns that prefix is
\* the first B * floor(N / B) documents, each of them is in exactly one
\* message, and the count returned is sent <= read with sent mod B = 0.
C35_EnqueuedIsThePrefixOfWholeBatches ==
  LET N == Len(bf.documents)
      B == bf.batchSize
  IN /\ Len(eventQueue) = bf.sentCount
     /\ bf.sentCount <= N
     /\ bf.sentCount % B = 0
     /\ \A m \in DOMAIN eventQueue :
          /\ KeyOf(eventQueue[m].body) = ToHex(bf.documents[m]._id)
          /\ SnapshotOf(eventQueue[m].body)
               = SnapshotOf(Entry(bf.documents[m], 0).MessageBody)
     /\ \A i \in 1..N : Cardinality(MessagesOf(i)) <= 1
     /\ bf.pc = "returned" =>
          /\ bf.ret = B * (N \div B)
          /\ bf.ret <= N
          /\ bf.ret % B = 0
          /\ \A i \in 1..N :
               Cardinality(MessagesOf(i)) = IF i <= B * (N \div B) THEN 1 ELSE 0

\* 23 documents with batch size 4: the first 20 are enqueued in order, once each
C35_Witness ==
  /\ bf.pc = "returned"
  /\ Len(bf.documents) = 23
  /\ bf.batchSize = 4
  /\ bf.ret = 20
  /\ KeyOf(eventQueue[20].body) = ToHex(bf.documents[20]._id)
  /\ MessagesOf(20) = {20}
  /\ MessagesOf(21) = {}

\* ------------------------------------------------------------------------
\* Properties of the batch consumer
\* ------------------------------------------------------------------------

\* the embed handler has returned or thrown
Completed == inv.pc \in {"returned", "threw"}

\* the messages of the records whose recordHandler threw
FailedMessages == {inv.records[i] : i \in FailedRecords(inv.rec)}

\* C2: when the handler has ended, every record of the batch was attempted
\* whatever happened to the others, every record whose write completed is
\* reported as success (absent from the report, its message deleted), and
\* only failed records are reported.
C2_PartialBatchIsolation ==
  Completed =>
    /\ \A i \in DOMAIN inv.rec : inv.rec[i].timeRead >= 0
    /\ \A i \in DOMAIN inv.rec :
         inv.rec[i].pc = "ok" =>
           /\ inv.pc = "returned"
           /\ inv.records[i] \notin inv.report
           /\ eventQueue[inv.records[i]].st = "deleted"
    /\ inv.report \subseteq FailedMessages

\* a batch whose record 1 failed at the embedding step: the record after it
\* was processed and is a success, record 1 alone is reported
C2_Witness ==
  /\ inv.pc = "returned"
  /\ Len(inv.records) >= 2
  /\ inv.rec[1].error = "embed"
  /\ inv.rec[2].pc = "ok"
  /\ inv.rec[2].storeCalls = 1
  /\ inv.report = {inv.records[1]}
  /\ eventQueue[inv.records[1]].st = "visible"
  /\ eventQueue[inv.records[2]].st = "deleted"

\* C3 as stated: whenever the handler has ended, it has returned a report
\* whose failed ids are exactly the records whose recordHandler threw.
C3_AlwaysReturnsExactReport ==
  Completed => (inv.pc = "returned" /\ inv.report = FailedMessages)

\* C3 amended: a returned report lists exactly the failed records, and the
\* handler returns unless every record of the batch failed; in that case it
\* throws, no report is made and the whole batch becomes visible again.
C3_ExactReportOrThrow ==
  Completed =>
    /\ inv.pc = "returned" <=> FailedMessages # Range(inv.records)
    /\ inv.pc = "returned" => inv.report = FailedMessages
    /\ inv.pc = "threw" =>
         /\ inv.report = {}
         /\ \A m \in Range(inv.records) : eventQueue[m].st = "visible"
    /\ \A m \in Range(inv.records) :
         eventQueue[m].st = IF m \in FailedMessages THEN "visible" ELSE "deleted"

\* a batch with a record that could not be parsed, reported, and a
\* successful one, deleted
C3_Witness ==
  /\ inv.pc = "returned"
  /\ Len(inv.records) >= 2
  /\ \E i \in DOMAIN inv.rec : inv.rec[i].error = "parse"
  /\ Cardinality(inv.report) = 1
  /\ inv.report = FailedMessages
  /\ \E m \in Range(inv.records) : eventQueue[m].st = "deleted"

\* C4 as stated: a record that applies an event already written, to a
\* document unchanged since, gets modifiedCount = 1 and is a success.
C4_SecondApplyModifiesOne ==
  \A i \in DOMAIN inv.rec :
    inv.rec[i].again => (inv.rec[i].modifiedCount = 1 /\ inv.rec[i].pc = "ok")

\* C5: a record whose recordHandler read a remaining time below 1000 ms has
\* failed without any embedding call or store call, and once the handler has
\* ended its message is visible again (reported, or part of a failed batch).
C5_TimeBudgetGuard ==
  \A i \in DOMAIN inv.rec :
    (inv.rec[i].timeRead >= 0 /\ inv.rec[i].timeRead < 1000) =>
      /\ inv.rec[i].pc = "failed"
      /\ inv.rec[i].embedCalls = 0
      /\ inv.rec[i].storeCalls = 0
      /\ inv.pc = "returned" => inv.records[i] \in inv.report
      /\ Completed => eventQueue[inv.records[i]].st = "visible"

\* record 1 was written with time to spare, record 2 read 999 ms and is reported
C5_Witness ==
  /\ inv.pc = "returned"
  /\ Len(inv.records) >= 2
  /\ inv.rec[1].pc = "ok"
  /\ inv.rec[2].timeRead = 999
  /\ inv.rec[2].error = "time"
  /\ inv.records[2] \in inv.report

\* C16: a record whose replace reports zero documents modified (its key is
\* not in the store, or nothing changes) fails, its message is reported and
\* becomes visible again, and the write leaves the store as it was: no
\* document is inserted.
C16_ZeroModifiedFailsAndKeepsStore ==
  /\ [](\A i \in DOMAIN inv.rec :
          inv.rec[i].modifiedCount = 0 =>
            /\ inv.rec[i].pc = "failed"
            /\ inv.pc = "returned" => inv.records[i] \in inv.report
            /\ Completed => eventQueue[inv.records[i]].st = "visible")
  /\ [](DOMAIN store = DOMAIN PipelineStore)
  /\ [][\A i \in DOMAIN inv.rec :
          (inv.rec[i].pc = "writing" /\ inv'.rec[i].pc # "writing"
           /\ inv'.rec[i].modifiedCount = 0) => store' = store]_vars

\* the record of an event whose key is not in the store, in a batch with a
\* successful record: reported, and no document was added to the store
C16_Witness ==
  /\ inv.pc = "returned"
  /\ \E i \in DOMAIN inv.rec :
       /\ KeyOf(BodyOfRecord(i)) = MissingKey
       /\ inv.rec[i].storeCalls = 1
       /\ inv.rec[i].modifiedCount = 0
       /\ inv.records[i] \in inv.report
       /\ eventQueue[inv.records[i]].st = "visible"
  /\ Len(store) = Len(PipelineStore)
  /\ MissingKey \notin DOMAIN store

\* the document an event asks for: its snapshot with the vector of its plot
Expected(body) ==
  [SnapshotOf(body) EXCEPT !.plot_embedding = Embed(SnapshotOf(body).plot)]

\* getEmbedding returned the vector of its plot to record i
GotVector(i) == inv.rec[i].returned = Embed(SnapshotOf(BodyOfRecord(i)).plot)

\* no other successful record of the batch carries the key of record i
OnlyWriterOfKey(i) ==
  \A j \in DOMAIN inv.rec :
    (j # i /\ inv.rec[j].pc = "ok") => KeyOf(BodyOfRecord(j)) # KeyOf(BodyOfRecord(i))

\* the snapshot of record i with plot_embedding set to what its embedding
\* call returned (an undefined value is stored as null)
ExpectedStored(i) ==
  [SnapshotOf(BodyOfRecord(i)) EXCEPT
     !.plot_embedding = IF inv.rec[i].returned = Undefined THEN Null
                        ELSE inv.rec[i].returned]

\* C17: the write of a record that succeeds leaves, under the event's key,
\* exactly the event's snapshot with plot_embedding set to what the
\* embedding call for the snapshot's plot returned (the vector of that plot,
\* when it returned a vector): a field the stored document had and the
\* snapshot lacks is gone. When the handler ends this is still the stored
\* document, unless another successful record of the batch wrote the same key.
C17_SuccessStoresSnapshotWithVector ==
  /\ [][\A i \in DOMAIN inv.rec :
          (i \in DOMAIN inv'.rec /\ inv.rec[i].pc = "writing" /\ inv'.rec[i].pc = "ok") =>
            /\ KeyOf(BodyOfRecord(i)) \in DOMAIN store'
            /\ store'[KeyOf(BodyOfRecord(i))] = ExpectedStored(i)
            /\ GotVector(i) => ExpectedStored(i) = Expected(BodyOfRecord(i))]_vars
  /\ [](Completed =>
          \A i \in DOMAIN inv.rec :
            (inv.rec[i].pc = "ok" /\ OnlyWriterOfKey(i)) =>
              store[KeyOf(BodyOfRecord(i))] = ExpectedStored(i))

\* the snapshot without title replaced the stored document that had one
C17_Witness ==
  /\ inv.pc = "returned"
  /\ \E i \in DOMAIN inv.rec :
       /\ inv.rec[i].pc = "ok"
       /\ SnapshotOf(BodyOfRecord(i)) = DocUntitled
       /\ KeyOf(BodyOfRecord(i)) = 1
  /\ PipelineStore[1].title = "T"
  /\ store[1] = Doc("plotB", Embed("plotB"), Absent)
  /\ store[1].title = Absent

\* C18 as stated: what the consumer extracts from the message the
\* dispatcher made for a document d is the operation type "update", the key
\* of d and a snapshot equal to d without its key.
C18_DispatchedEventRoundTrips ==
  \A i \in DOMAIN inv.rec :
    inv.rec[i].embedCalls > 0 =>
      LET body == BodyOfRecord(i)
          d == bf.documents[inv.records[i]]
      IN /\ body.value.detail.operationType = "update"
         /\ ObjectId(KeyOf(body)) = d._id
         /\ WithId(KeyOf(body), SnapshotOf(body)) = d

\* records i and j carry the same change event: same key, same snapshot
SameEvent(i, j) ==
  /\ BodyOfRecord(i).text = "json"
  /\ BodyOfRecord(j).text = "json"
  /\ KeyOf(BodyOfRecord(i)) = KeyOf(BodyOfRecord(j))
  /\ SnapshotOf(BodyOfRecord(i)) = SnapshotOf(BodyOfRecord(j))

\* C20 as stated: of two deliveries of the same change event processed
\* concurrently, neither fails because of the other: when one has succeeded
\* the write of the other is not refused, and the stored document is the one
\* a single processing leaves.
C20_ConcurrentDuplicatesTolerated ==
  \A i, j \in DOMAIN inv.rec :
    (i # j /\ SameEvent(i, j) /\ inv.rec[i].pc = "ok" /\ inv.rec[j].returned # Undefined) =>
      /\ (GotVector(i) /\ OnlyWriterOfKey(i)) =>
           store[KeyOf(BodyOfRecord(i))] = Expected(BodyOfRecord(i))
      /\ ~(inv.rec[j].error = "write" /\ inv.rec[j].modifiedCount = 0)

\* C24 as stated: the records of a batch are processed one after the other
\* in delivery order: a record is not started before the record delivered
\* before it has ended in success or failure.
C24_RecordsProcessedSequentially ==
  \A i \in DOMAIN inv.rec :
    (i > 1 /\ inv.rec[i].pc # "new") => inv.rec[i - 1].pc \in {"ok", "failed"}

\* record i is between its first await and its exit
InProgress(i) == inv.rec[i].pc \in {"embedding", "writing"}

\* C25 as stated: while a record is being processed the shared logger
\* carries that record's messageId and documentId and no other record's,
\* and a record is started only once the subsegment of every earlier record
\* is closed and the keys are removed.
C25_LoggerCarriesOwnKeysOnly ==
  /\ \A i \in DOMAIN inv.rec :
       InProgress(i) => /\ inv.logger.messageId = inv.records[i]
                        /\ inv.logger.documentId = KeyOf(BodyOfRecord(i))
  /\ \A i, j \in DOMAIN inv.rec :
       (j < i /\ inv.rec[i].pc # "new") => inv.rec[j].subsegment = "closed"

\* every step of the processing of record i went through
AllStepsPassed(i) ==
  /\ inv.rec[i].timeRead >= TimeThreshold
  /\ ~ParseThrows(BodyOfRecord(i))
  /\ ~ExtractThrows(BodyOfRecord(i))
  /\ inv.rec[i].returned \notin {"none", Threw}
  /\ inv.rec[i].modifiedCount = 1

\* C26: when the handler has ended, a record is a success (not reported, its
\* message deleted) exactly when its time guard passed, its payload parsed
\* and held a key and a snapshot, its embedding call returned and its replace
\* modified exactly one document; a record that threw at any step has
\* failed and its message is reported, or the whole batch failed, so that it
\* is visible again.
C26_SuccessIffEveryStepPassed ==
  /\ \A i \in DOMAIN inv.rec : inv.rec[i].pc = "ok" <=> AllStepsPassed(i)
  /\ \A i \in DOMAIN inv.rec :
       inv.rec[i].error \in {"time", "parse", "extract", "embed", "write"} <=>
         inv.rec[i].pc = "failed"
  /\ Completed =>
       \A i \in DOMAIN inv.rec :
         /\ inv.rec[i].pc \in {"ok", "failed"}
         /\ eventQueue[inv.records[i]].st =
              IF AllStepsPassed(i) THEN "deleted" ELSE "visible"
         /\ inv.pc = "returned" => (inv.records[i] \in inv.report <=> ~AllStepsPassed(i))

\* a payload that is JSON without detail, reported, next to a success
C26_Witness ==
  /\ inv.pc = "returned"
  /\ \E i \in DOMAIN inv.rec :
       /\ BodyOfRecord(i) = NoDetailBody
       /\ inv.rec[i].error = "extract"
       /\ inv.records[i] \in inv.report
  /\ \E i \in DOMAIN inv.rec : inv.rec[i].pc = "ok" /\ AllStepsPassed(i)

\* C30: a step of the processing of a record changes at most the stored
\* document whose key is the event's documentKey._id, and only at its write;
\* a record that failed at the time guard, the parse or the embedding call
\* made no store call.
C30_OnlyTheKeyedDocumentChanges ==
  /\ [][store' # store =>
          \E i \in DOMAIN inv.rec :
            /\ inv.rec[i].pc = "writing"
            /\ inv'.rec[i].pc = "ok"
            /\ DOMAIN store' = DOMAIN store
            /\ \A k \in DOMAIN store :
                 k # KeyOf(BodyOfRecord(i)) => store'[k] = store[k]]_vars
  /\ [](\A i \in DOMAIN inv.rec :
          inv.rec[i].error \in {"time", "parse", "extract", "embed"} =>
            inv.rec[i].storeCalls = 0)

\* document 1 was replaced, document 2 is as it was, and a record of the
\* batch failed at the embedding call
C30_Witness ==
  /\ Completed
  /\ store[1] # PipelineStore[1]
  /\ store[2] = PipelineStore[2]
  /\ \E i \in DOMAIN inv.rec : inv.rec[i].error = "embed" /\ inv.rec[i].storeCalls = 0

\* C32 as stated: once a record is reported as success the document stored
\* under its key carries a plot_embedding vector and is no candidate of
\* readDocuments any more.
C32_SuccessLeavesAVector ==
  \A i \in DOMAIN inv.rec :
    inv.rec[i].pc = "ok" =>
      /\ KeyOf(BodyOfRecord(i)) \in DOMAIN store
      /\ store[KeyOf(BodyOfRecord(i))].plot_embedding \in {Embed(text) : text \in Texts}
      /\ ~MatchesFilter(store[KeyOf(BodyOfRecord(i))])

\* C33 as stated: once a record has failed the time guard, every record
\* started after it fails the guard too, and from then on the invocation
\* starts no embedding call and makes no store write.
C33_NothingAfterTheGuardFailed ==
  /\ [](\A i, j \in DOMAIN inv.rec :
          (i < j /\ inv.rec[i].error = "time" /\ inv.rec[j].pc # "new")
            => inv.rec[j].error = "time")
  /\ [][(\E i \in DOMAIN inv.rec : inv.rec[i].error = "time") =>
          /\ store' = store
          /\ \A j \in DOMAIN inv.rec :
               /\ inv'.rec[j].embedCalls = inv.rec[j].embedCalls
               /\ inv'.rec[j].storeCalls = inv.rec[j].storeCalls]_vars

\* C34: within the processing of one record the time check comes first,
\* then the parse, then a single embedding call, then at most one replace;
\* the replace is issued only once the embedding call has returned, and
\* neither call is made a second time.
C34_FixedOrderOfEffects ==
  \A i \in DOMAIN inv.rec :
    LET r == inv.rec[i]
        body == BodyOfRecord(i)
    IN /\ r.embedCalls <= 1
       /\ r.storeCalls <= 1
       /\ r.pc = "new" => (r.timeRead < 0 /\ r.embedCalls = 0 /\ r.storeCalls = 0)
       /\ r.error = "time" => (r.embedCalls = 0 /\ r.storeCalls = 0)
       /\ r.error \in {"parse", "extract"} =>
            (~TimeAboutToExpire(r.timeRead) /\ r.embedCalls = 0 /\ r.storeCalls = 0)
       /\ r.embedCalls = 1 =>
            (~TimeAboutToExpire(r.timeRead) /\ ~ParseThrows(body) /\ ~ExtractThrows(body))
       /\ r.pc = "embedding" => (r.embedCalls = 1 /\ r.returned = "none" /\ r.storeCalls = 0)
       /\ r.error = "embed" => (r.returned = "none" /\ r.storeCalls = 0)
       /\ r.pc = "writing" => (r.embedCalls = 1 /\ r.returned # "none" /\ r.storeCalls = 0)
       /\ r.storeCalls = 1 => (r.embedCalls = 1 /\ r.returned # "none")
       /\ r.pc = "ok" => (r.embedCalls = 1 /\ r.storeCalls = 1)

\* one record went through every step, another one stopped at a rejected replace
C34_Witness ==
  /\ Completed
  /\ \E i, j \in DOMAIN inv.rec :
       /\ inv.rec[i].pc = "ok"
       /\ inv.rec[i].embedCalls = 1
       /\ inv.rec[i].storeCalls = 1
       /\ inv.rec[j].error = "write"
       /\ inv.rec[j].modifiedCount < 0
       /\ inv.rec[j].storeCalls = 1

\* C39 as stated: whenever the consumer writes a document, the
\* plot_embedding it stores is the embedding of the plot stored with it.
C39_WrittenVectorBelongsToWrittenPlot ==
  [][\A k \in DOMAIN store :
       (k \in DOMAIN store' /\ store'[k] # store[k]) =>
         store'[k].plot_embedding = Embed(store'[k].plot)]_vars

\* ------------------------------------------------------------------------
\* Properties of the event queue and the event bus
\* ------------------------------------------------------------------------

\* message m of the event queue has left it
Settled(m) == m \in DOMAIN eventQueue /\ eventQueue[m].st \in {"deleted", "dlq"}

\* the record of message m in the running invocation succeeded
SucceededNow(m) ==
  \E i \in DOMAIN inv.records : inv.records[i] = m /\ inv.rec[i].pc = "ok"

\* C6: no message is received more than maxReceiveCount = 3 times; a message
\* is in the dead-letter queue only after 3 receives; a message leaves the
\* queue only by the deletion that follows its successful processing or by
\* the move to the dead-letter queue; and every message of the queue
\* eventually leaves it, so that one whose processing always fails is
\* dead-lettered after its third receive.
C6_RedeliverThenDeadLetter ==
  /\ [](\A m \in DOMAIN eventQueue :
          /\ eventQueue[m].receiveCount <= MaxReceiveCount
          /\ eventQueue[m].st = "dlq" => eventQueue[m].receiveCount = MaxReceiveCount)
  /\ [][\A m \in DOMAIN eventQueue :
          /\ (eventQueue[m].st # "deleted" /\ eventQueue'[m].st = "deleted")
               => SucceededNow(m)
          /\ (eventQueue[m].st # "dlq" /\ eventQueue'[m].st = "dlq")
               => (eventQueue[m].st = "visible"
                   /\ eventQueue[m].receiveCount = MaxReceiveCount
                   /\ dlqEventQueue' = Append(dlqEventQueue, eventQueue[m].body))]_vars
  /\ <>(\A m \in DOMAIN eventQueue : Settled(m))

\* a well-formed event that failed three times and sits in the dead-letter queue
C6_Witness ==
  \E m \in DOMAIN eventQueue :
    /\ eventQueue[m].st = "dlq"
    /\ eventQueue[m].receiveCount = 3
    /\ eventQueue[m].body.text = "json"
    /\ dlqEventQueue # <<>>
    /\ written = {}

\* nothing is left to do: no invocation runs and every message has left the queue
Quiescent ==
  /\ inv.pc # "running"
  /\ \A m \in DOMAIN eventQueue : Settled(m)

\* the change events that come from the consumer's own replaces
ReplaceEvents == {e \in published : e.value.detail.operationType = "replace"}

C38_EveryMessageLeavesOneWay ==
  /\ [][\A m \in DOMAIN eventQueue :
          /\ eventQueue[m].st = "deleted" => eventQueue'[m].st = "deleted"
          /\ eventQueue[m].st = "dlq" => eventQueue'[m].st = "dlq"
          /\ (eventQueue[m].st # "deleted" /\ eventQueue'[m].st = "deleted") =>
               (eventQueue[m].st = "inflight" /\ SucceededNow(m))
          /\ (inv.pc = "running" /\ inv'.pc = "returned" /\ SucceededNow(m)) =>
               /\ m \notin inv'.report
               /\ eventQueue'[m].st = "deleted"]_vars
  /\ [](\A m \in DOMAIN eventQueue :
          eventQueue[m].st = "dlq" =>
            Cardinality({j \in DOMAIN dlqEventQueue : dlqEventQueue[j] = eventQueue[m].body})
              = Cardinality({n \in DOMAIN eventQueue :
                               /\ eventQueue[n].st = "dlq"
                               /\ eventQueue[n].body = eventQueue[m].body}))
  /\ <>[](\A m \in DOMAIN eventQueue : Settled(m))

\* one message was deleted after its success, the other one was dead-lettered
C38_Witness ==
  /\ inv.pc \in {"returned", "threw"}
  /\ Len(eventQueue) = 2
  /\ \E m, n \in DOMAIN eventQueue :
       /\ eventQueue[m].st = "deleted"
       /\ eventQueue[m].receiveCount = 1
       /\ eventQueue[n].st = "dlq"
       /\ eventQueue[n].receiveCount = MaxReceiveCount
  /\ Len(dlqEventQueue) = 2

\* the messages of the event queue that were received at least once
DeliveredBodies ==
  {eventQueue[m].body : m \in {x \in DOMAIN eventQueue : eventQueue[x].receiveCount > 0}}

\* C7 as stated: every change event the trigger publishes to the partner bus
\* is eventually delivered, through the event queue, to the embed function.
C7_ChangeEventsReachEmbed ==
  (published # {}) ~> (published \subseteq DeliveredBodies)

\* ------------------------------------------------------------------------
\* Properties of the search handler
\* ------------------------------------------------------------------------

\* C13: a successful search answers 200 with at most 3 results in descending
\* order of score, each result carrying exactly _id, title, plot and score.
C13_SearchReturnsTopThree ==
  sr.pc = "returned" =>
    LET items == sr.resp.items
    IN /\ sr.resp.statusCode = 200
       /\ Len(items) <= 3
       /\ \A i, j \in DOMAIN items : i < j => items[i].score >= items[j].score
       /\ \A i \in DOMAIN items : DOMAIN items[i] = {"_id", "title", "plot", "score"}

\* more than three indexed documents, the nearest of them not the first of
\* the collection: three results with three different scores
C13_Witness ==
  /\ sr.pc = "returned"
  /\ Cardinality(Indexed(store)) > 3
  /\ Len(sr.resp.items) = 3
  /\ sr.resp.items[1].score > sr.resp.items[2].score
  /\ sr.resp.items[2].score > sr.resp.items[3].score
  /\ sr.resp.items[1]._id # 1

\* C14: whatever fails inside the search handler (the body does not parse,
\* the embedding call fails or returns no embedding, the similarity search
\* fails), the response is 500 with the one fixed message and nothing of the
\* error.
C14_FailuresGiveOneGenericResponse ==
  sr.pc = "failed" =>
    /\ sr.error \in {"parse", "embed", "empty", "search"}
    /\ sr.resp = [statusCode |-> 500, message |-> GenericMessage, items |-> <<>>]

C14_Witness ==
  /\ sr.pc = "failed"
  /\ sr.error = "search"
  /\ sr.searches = 1
  /\ sr.resp.statusCode = 500
  /\ sr.resp.message = GenericMessage

C21_NeverReturnsEmptyOrUndefined ==
  /\ sr.returned \notin {Undefined, EmptyVector}
  /\ \A i \in DOMAIN inv.rec : inv.rec[i].returned \notin {Undefined, EmptyVector}

\* C27: the search handler calls the embedding service at most once for a
\* request; when that call fails or returns no embedding the request ends
\* with the error response and no similarity search is issued.
C27_EmbeddingCalledOnceNoSearchAfterFailure ==
  /\ sr.embedCalls <= 1
  /\ sr.error \in {"embed", "empty"} =>
       /\ sr.pc = "failed"
       /\ sr.searches = 0
       /\ sr.resp = ErrorResponse(sr.error)

\* the one embedding call of a request with a query text failed
C27_Witness ==
  /\ sr.pc = "failed"
  /\ sr.error = "embed"
  /\ sr.query = "plotA"
  /\ sr.embedCalls = 1
  /\ sr.searches = 0
  /\ sr.resp.statusCode = 500

\* C36: the search handler ends every invocation with a response, never
\* with an exception; the status of the response is 200 or 500, and it is 200
\* only when the embedding call returned a vector and the similarity search
\* succeeded.
C36_HandlerAlwaysAnswers200Or500 ==
  /\ sr.pc \in {"idle", "rejected", "embedding", "searching", "returned", "failed"}
  /\ sr.pc \in {"embedding", "searching"} => sr.resp = SrNoResp
  /\ sr.pc \in {"returned", "failed"} =>
       /\ sr.resp.statusCode \in {200, 500}
       /\ sr.resp.statusCode = 500 <=> sr.pc = "failed"
       /\ sr.resp.statusCode = 200 =>
            /\ sr.error = ""
            /\ sr.embedCalls = 1
            /\ sr.returned = Embed(sr.query)
            /\ sr.searches = 1
            /\ sr.resp.items = ItemsToJson(knnSearch(store, sr.returned))

\* a request that went through both calls and got its 200 response with results
C36_Witness ==
  /\ sr.pc = "returned"
  /\ sr.query = "plotA"
  /\ sr.returned = Embed("plotA")
  /\ sr.embedCalls = 1
  /\ sr.searches = 1
  /\ sr.resp.statusCode = 200
  /\ Len(sr.resp.items) = 2

\* ------------------------------------------------------------------------
\* Properties of the MongoDB client
\* ------------------------------------------------------------------------
\* C22 as stated: over any interleaving of getMongoCollection calls in one
\* instance at most one MongoClient is created and every call that returns
\* returns the same collection handle.
C22_OneClientOneHandle ==
  /\ mongo.created <= 1
  /\ \A c, d \in Calls :
       (mongo.call[c].pc = "returned" /\ mongo.call[d].pc = "returned")
         => mongo.call[c].ret = mongo.call[d].ret

\* C23 as stated: whatever the state of the connection when SIGTERM
\* arrives, the listener closes the connection if there is one and the
\* process exits with code 0 without an error.
C23_SigtermClosesAndExitsZero ==
  mongo.exit # "running" =>
    /\ mongo.exit = "exit0"
    /\ \A n \in DOMAIN mongo.connection : mongo.connection[n] = "closed"

\* C31 as stated: no collection handle is given to a caller (which then
\* issues its read or write on it) while the connect operation of its
\* client is still pending.
C31_ConnectAwaitedBeforeUse ==
  \A c \in Calls :
    mongo.call[c].pc = "returned" =>
      /\ mongo.call[c].ret \in DOMAIN mongo.connection
      /\ mongo.connection[mongo.call[c].ret] # "connecting"

\* the errors getMongoCollection throws before it has created a client
InitErrors ==
  {"MONGODB_CONNECTION_STRING_SECRET_NAME is not set", "getSecret",
   "MongoDB connection string not found"}

\* C40: a call of getMongoCollection that fails before the client is
\* created throws and leaves mongoClient and collection as they were (unset,
\* unless another call has set them); a call made while they are unset
\* starts the initialization from the beginning; no call returns an
\* undefined collection.
C40_FailedInitLeavesNothingBehind ==
  /\ [](\A c \in Calls :
          /\ mongo.call[c].pc = "threw" <=> mongo.call[c].error \in InitErrors
          /\ mongo.call[c].pc = "returned" =>
               (mongo.call[c].ret # NoClient /\ mongo.call[c].ret \in DOMAIN mongo.connection)
          /\ mongo.mongoClient = NoClient <=> mongo.collection = NoClient)
  /\ [][\A c \in Calls :
          /\ (mongo.call[c].pc # "threw" /\ mongo'.call[c].pc = "threw") =>
               /\ mongo'.mongoClient = mongo.mongoClient
               /\ mongo'.collection = mongo.collection
               /\ mongo'.created = mongo.created
          /\ (mongo.call[c].pc = "idle" /\ mongo'.call[c].pc # "idle"
                /\ mongo.mongoClient = NoClient) =>
               mongo'.call[c].pc = IF mongo.env THEN "secret" ELSE "threw"]_vars

\* two calls failed, one on a rejected retrieval and one on a missing
\* secret, and left nothing behind: the third call built the first client
C40_Witness ==
  /\ mongo.call[1].pc = "threw"
  /\ mongo.call[1].error = "getSecret"
  /\ mongo.call[2].pc = "threw"
  /\ mongo.call[2].error = "MongoDB connection string not found"
  /\ mongo.call[3].pc = "returned"
  /\ mongo.created = 1
  /\ mongo.call[3].ret = 1
  /\ mongo.collection = 1

====
